---- MODULE Spec2Model ----
(***************************************************************************)
(* Term & reversion cash flow tool (src/app.py).                           *)
(*                                                                         *)
(* One run of the script body under `if uploaded_file:`: read the lease    *)
(* table, check the required columns, convert the date columns, derive     *)
(* the 10 projection years and fill the cash flow matrix cell by cell.     *)
(*                                                                         *)
(* Units.  A timestamp is a count of half days since 1970-01-01 00:00      *)
(* (even = midnight, odd = noon), so that Timedelta.days has a fraction    *)
(* to drop.  A money amount is held in hundredths of the currency unit,    *)
(* which is the grain of round(x, 2).  escalation_percent is held in       *)
(* tenths of a percent, the step of the number_input widget.               *)
(* Cells are computed exactly (rational arithmetic) and then rounded half  *)
(* to even, which is what round(float, 2) returns whenever the exact       *)
(* value is not within float error of a tie.                               *)
(***************************************************************************)
EXTENDS Integers, Sequences, FiniteSets, TLC

VARIABLES
    uploaded_file,          \* the uploaded table: [columns, rows] as stored in the workbook
    valuation_date_input,   \* <<year, month, day>> of the date_input widget
    escalation_percent,     \* number_input value, in tenths of a percent
    pc,                     \* position in the script
    df,                     \* rows of the data frame (date cells become timestamps)
    valuation_year,
    years,
    cashflow_matrix,
    idx,                    \* number of rows the row loop has entered
    tenant_row,
    regime,                 \* branch taken for each cell of tenant_row
    days_in_year,
    days_covered,
    cashflow_df,            \* [columns, rows], or NoFrame before assembly
    ui,                     \* elements rendered so far, in order
    output                  \* the exported workbook, or NoFrame

vars == <<uploaded_file, valuation_date_input, escalation_percent, pc, df,
          valuation_year, years, cashflow_matrix, idx, tenant_row, regime,
          days_in_year, days_covered, cashflow_df, ui, output>>

----------------------------------------------------------------------------
(* Program constants *)

Horizon == 10

required_cols ==
    {"Tenant", "Lease Start", "Lease End",
     "Passing Rent (AED/year)", "Market Rent (AED/year)"}

NoFrame == [columns |-> <<>>, rows |-> <<>>, none |-> TRUE]

----------------------------------------------------------------------------
(* Calendar: what pd.Timestamp / pd.to_datetime / Timedelta.days compute *)

IsLeap(y) == (y % 4 = 0 /\ y % 100 # 0) \/ y % 400 = 0

DaysInMonth(y, m) ==
    IF m = 2 THEN (IF IsLeap(y) THEN 29 ELSE 28)
    ELSE IF m \in {4, 6, 9, 11} THEN 30 ELSE 31

LeapsBefore(y) == (y - 1) \div 4 - (y - 1) \div 100 + (y - 1) \div 400

DaysBeforeYear(y) == 365 * (y - 1970) + LeapsBefore(y) - LeapsBefore(1970)

RECURSIVE DaysBeforeMonth(_, _)
DaysBeforeMonth(y, m) ==
    IF m = 1 THEN 0 ELSE DaysBeforeMonth(y, m - 1) + DaysInMonth(y, m - 1)

\* pd.Timestamp of a calendar date at half-day h (0 = 00:00, 1 = 12:00)
Timestamp(y, m, d, h) ==
    2 * (DaysBeforeYear(y) + DaysBeforeMonth(y, m) + (d - 1)) + h

\* a date cell is text <<y, m, d, h>>; it parses iff it names a calendar day
Parseable(c) == c[2] \in 1..12 /\ c[3] \in 1..DaysInMonth(c[1], c[2])

to_datetime(c) == Timestamp(c[1], c[2], c[3], c[4])

\* Timedelta.days: whole days, rounded toward minus infinity
TimedeltaDays(delta) == delta \div 2

Max(a, b) == IF a >= b THEN a ELSE b
Min(a, b) == IF a <= b THEN a ELSE b

----------------------------------------------------------------------------
(* Arithmetic of a cell *)

RECURSIVE GCD(_, _)
GCD(a, b) == IF b = 0 THEN a ELSE GCD(b, a % b)

RECURSIVE Pow(_, _)
Pow(b, e) == IF e = 0 THEN 1 ELSE b * Pow(b, e - 1)

Abs(x) == IF x < 0 THEN -x ELSE x
Sign(x) == IF x < 0 THEN -1 ELSE 1

\* mutant: 1 - escalation_percent / 100
GrowthNumDecay(p) == (1000 - p) \div GCD(1000 + p, 1000)

\* 1 + escalation_percent / 100 as a fraction in lowest terms
GrowthNum(p) == (1000 + p) \div GCD(1000 + p, 1000)
GrowthDen(p) == 1000 \div GCD(1000 + p, 1000)

\* round(n / d) half to even, n >= 0, d > 0
RoundHalfEven(n, d) ==
    LET q == n \div d
        r == n % d
    IN  IF 2 * r < d THEN q
        ELSE IF 2 * r > d THEN q + 1
        ELSE IF q % 2 = 0 THEN q ELSE q + 1

\* <<quotient, remainder>> of n * m / d without forming n * m (n, m >= 0, d > 0)
RECURSIVE MulDivMod(_, _, _)
MulDivMod(n, m, d) ==
    IF m = 0 THEN <<0, 0>>
    ELSE LET h  == MulDivMod(n, m \div 2, d)
             q2 == 2 * h[1] + (2 * h[2]) \div d
             r2 == (2 * h[2]) % d
             qn == IF m % 2 = 1 THEN n \div d ELSE 0
             rn == IF m % 2 = 1 THEN n % d ELSE 0
         IN  <<q2 + qn + (r2 + rn) \div d, (r2 + rn) % d>>

\* round(n * m / d) half to even, n, m >= 0, d > 0
RoundMulDiv(n, m, d) ==
    LET qr == MulDivMod(n, m, d)
    IN  IF 2 * qr[2] < d THEN qr[1]
        ELSE IF 2 * qr[2] > d THEN qr[1] + 1
        ELSE IF qr[1] % 2 = 0 THEN qr[1] ELSE qr[1] + 1

\* round(rent * (1 + escalation_percent / 100) ** i, 2)
RoundedAnnual(rent, p, i) ==
    Sign(rent) * RoundHalfEven(Abs(rent) * Pow(GrowthNum(p), i), Pow(GrowthDen(p), i))

\* round(rent * (1 + escalation_percent / 100) ** i * (covered / in_year), 2)
RoundedProRated(rent, p, i, covered, in_year) ==
    Sign(rent) * Sign(covered) *
        RoundMulDiv(Abs(rent) * Pow(GrowthNum(p), i), Abs(covered),
                    Pow(GrowthDen(p), i) * in_year)

----------------------------------------------------------------------------
(* Inputs *)

MaxRows == 2

Number(c) == [text |-> FALSE, cents |-> c]
Text == [text |-> TRUE, cents |-> 0]

LeaseRow(t, s, e, p, m) ==
    [Tenant |-> t, LeaseStart |-> s, LeaseEnd |-> e, PassingRent |-> p, MarketRent |-> m]

\* date cells <<year, month, day, half day>>
LeaseDates ==
    { <<2020, 6, 30, 0>>, <<2024, 1, 1, 0>>, <<2024, 2, 29, 0>>,
      <<2025, 6, 30, 0>>, <<2025, 12, 31, 1>>, <<2027, 12, 31, 0>>,
      <<2028, 1, 1, 0>>, <<2030, 7, 1, 1>>, <<2040, 1, 1, 0>> }

Rents == {-100, 0, 100, 200}

ValuationDates == { <<2023, 3, 15>>, <<2024, 12, 31>> }

\* 0 % and 20 %, the ends of the number_input range
Escalations == {0, 200}

\* rows of the whole-run specification; the third holds an impossible date,
\* the second and fourth hold text in a rent cell
SampleRows ==
    { LeaseRow("Tenant A", <<2023, 1, 1, 0>>, <<2027, 12, 31, 0>>, Number(100), Number(200)),
      LeaseRow("Tenant B", <<2024, 6, 1, 0>>, <<2040, 5, 31, 0>>, Number(200), Text),
      LeaseRow("Tenant A", <<2024, 2, 30, 0>>, <<2029, 5, 31, 0>>, Number(100), Number(100)),
      LeaseRow("Tenant B", <<2020, 6, 30, 0>>, <<2025, 6, 30, 0>>, Text, Number(200)),
      LeaseRow("Tenant C", <<2040, 1, 1, 0>>, <<2045, 12, 31, 0>>, Number(100), Number(200)),
      LeaseRow("Tenant A", <<2019, 1, 1, 0>>, <<2020, 6, 30, 0>>, Number(100), Number(100)) }

Tables(S) == UNION { [1..n -> S] : n \in 0..MaxRows }

ColumnSets ==
    { required_cols, required_cols \ {"Tenant"}, required_cols \ {"Market Rent (AED/year)"} }

Blank ==
    /\ pc = "read"
    /\ df = <<>>
    /\ valuation_year = 0
    /\ years = <<>>
    /\ cashflow_matrix = <<>>
    /\ idx = 0
    /\ tenant_row = <<>>
    /\ regime = <<>>
    /\ days_in_year = 0
    /\ days_covered = 0
    /\ cashflow_df = NoFrame
    /\ ui = <<>>
    /\ output = NoFrame

\* a file has been uploaded and the two widgets hold a value
Init ==
    /\ uploaded_file \in [columns : ColumnSets, rows : Tables(SampleRows)]
    /\ valuation_date_input \in ValuationDates
    /\ escalation_percent \in Escalations
    /\ Blank

\* one well-typed lease record, every combination of dates and rents
InitProjector ==
    /\ \E s \in LeaseDates, e \in LeaseDates, p \in Rents, m \in Rents :
          uploaded_file = [columns |-> required_cols,
                           rows |-> << LeaseRow("Tenant A", s, e, Number(p), Number(m)) >>]
    /\ valuation_date_input \in ValuationDates
    /\ escalation_percent \in Escalations
    /\ Blank

----------------------------------------------------------------------------
(* The script, lines 38-105 *)

\* mutant: any required column suffices
HasSomeRequiredColumn(columns) == required_cols \cap columns # {}

\* required_cols.issubset(df.columns)
HasRequiredColumns(columns) == required_cols \subseteq columns

\* except Exception as e: st.error(...)
Raise ==
    /\ ui' = Append(ui, "error")
    /\ pc' = "done"

ReadExcel ==
    /\ pc = "read"
    /\ df' = uploaded_file.rows
    /\ ui' = Append(ui, "success")
    /\ pc' = "check"
    /\ UNCHANGED <<uploaded_file, valuation_date_input, escalation_percent,
                   valuation_year, years, cashflow_matrix, idx, tenant_row, regime,
                   days_in_year, days_covered, cashflow_df, output>>

MissingColumns ==
    /\ pc = "check"
    /\ ~HasRequiredColumns(uploaded_file.columns)
    /\ ui' = Append(ui, "missing columns")
    /\ pc' = "done"
    /\ UNCHANGED <<uploaded_file, valuation_date_input, escalation_percent, df,
                   valuation_year, years, cashflow_matrix, idx, tenant_row, regime,
                   days_in_year, days_covered, cashflow_df, output>>

ConvertDates ==
    /\ pc = "check"
    /\ HasRequiredColumns(uploaded_file.columns)
    /\ \A k \in 1..Len(df) : Parseable(df[k].LeaseStart) /\ Parseable(df[k].LeaseEnd)
    /\ df' = [k \in 1..Len(df) |->
                [df[k] EXCEPT !.LeaseStart = to_datetime(df[k].LeaseStart),
                              !.LeaseEnd = to_datetime(df[k].LeaseEnd)]]
    /\ pc' = "years"
    /\ UNCHANGED <<uploaded_file, valuation_date_input, escalation_percent,
                   valuation_year, years, cashflow_matrix, idx, tenant_row, regime,
                   days_in_year, days_covered, cashflow_df, ui, output>>

ConvertDatesRaises ==
    /\ pc = "check"
    /\ HasRequiredColumns(uploaded_file.columns)
    /\ \E k \in 1..Len(df) : ~Parseable(df[k].LeaseStart) \/ ~Parseable(df[k].LeaseEnd)
    /\ Raise
    /\ UNCHANGED <<uploaded_file, valuation_date_input, escalation_percent, df,
                   valuation_year, years, cashflow_matrix, idx, tenant_row, regime,
                   days_in_year, days_covered, cashflow_df, output>>

\* mutant: the year nearest to the valuation date
YearOfNearest(date) == IF date[2] > 6 THEN date[1] + 1 ELSE date[1]

\* valuation_date_input.year
YearOf(date) == date[1]

\* list(range(valuation_year, valuation_year + 10))
YearRange(first) == [j \in 1..Horizon |-> first + (j - 1)]

GenerateYears ==
    /\ pc = "years"
    /\ valuation_year' = YearOf(valuation_date_input)
    /\ years' = YearRange(YearOf(valuation_date_input))
    /\ cashflow_matrix' = <<>>
    /\ pc' = "rows"
    /\ UNCHANGED <<uploaded_file, valuation_date_input, escalation_percent, df,
                   idx, tenant_row, regime, days_in_year, days_covered,
                   cashflow_df, ui, output>>

\* for idx, row in df.iterrows(): tenant_row = []
BeginRow ==
    /\ pc = "rows"
    /\ idx < Len(df)
    /\ idx' = idx + 1
    /\ tenant_row' = <<>>
    /\ regime' = <<>>
    /\ pc' = "cells"
    /\ UNCHANGED <<uploaded_file, valuation_date_input, escalation_percent, df,
                   valuation_year, years, cashflow_matrix, days_in_year, days_covered,
                   cashflow_df, ui, output>>

\* pd.Timestamp(f"{year}-01-01"), pd.Timestamp(f"{year}-12-31")
StartOfYear(year) == Timestamp(year, 1, 1, 0)
EndOfYear(year) == Timestamp(year, 12, 31, 0)

\* mutant: every year has 365 days
DaysInYearFixed(start_of_year, end_of_year) == 365

\* (end_of_year - start_of_year).days + 1
DaysInYear(start_of_year, end_of_year) ==
    TimedeltaDays(end_of_year - start_of_year) + 1

\* mutants: a lease ending on Jan 1 counts as expired; the comparison reversed
FullyExpiredInclusive(lease_end, start_of_year) == lease_end <= start_of_year
FullyExpiredFlipped(lease_end, start_of_year) == lease_end > start_of_year

\* if lease_end < start_of_year
FullyExpired(lease_end, start_of_year) == lease_end < start_of_year

\* mutant: the comparison reversed
NotYetStartedFlipped(lease_start, end_of_year) == lease_start < end_of_year

\* elif lease_start > end_of_year
NotYetStarted(lease_start, end_of_year) == lease_start > end_of_year

\* mutant: the last day of the period is not counted
DaysCoveredExclusive(lease_start, lease_end, start_of_year, end_of_year) ==
    LET period_start == Max(start_of_year, lease_start)
        period_end   == Min(end_of_year, lease_end)
    IN  TimedeltaDays(period_end - period_start)

\* period_start, period_end, days_covered
DaysCovered(lease_start, lease_end, start_of_year, end_of_year) ==
    LET period_start == Max(start_of_year, lease_start)
        period_end   == Min(end_of_year, lease_end)
    IN  TimedeltaDays(period_end - period_start) + 1

\* mutant: escalation starts one year late
ReversionRentLagged(row, p, i) ==
    RoundedAnnual(row.MarketRent.cents, p, IF i = 0 THEN 0 ELSE i - 1)

\* round(row['Market Rent (AED/year)'] * ((1 + escalation_percent / 100) ** i), 2)
ReversionRent(row, p, i) == RoundedAnnual(row.MarketRent.cents, p, i)

\* round(row['Passing Rent (AED/year)'] * (...) ** i * (days_covered / days_in_year), 2)
InTermRent(row, p, i, covered, in_year) ==
    RoundedProRated(row.PassingRent.cents, p, i, covered, in_year)

CellExpired ==
    /\ pc = "cells"
    /\ Len(tenant_row) < Horizon
    /\ LET i   == Len(tenant_row)
           soy == StartOfYear(years[i + 1])
           eoy == EndOfYear(years[i + 1])
           row == df[idx]
       IN  /\ FullyExpired(row.LeaseEnd, soy)
           /\ ~row.MarketRent.text
           /\ days_in_year' = DaysInYear(soy, eoy)
           /\ tenant_row' = Append(tenant_row, ReversionRent(row, escalation_percent, i))
           /\ regime' = Append(regime, "expired")
    /\ UNCHANGED <<uploaded_file, valuation_date_input, escalation_percent, pc, df,
                   valuation_year, years, cashflow_matrix, idx, days_covered,
                   cashflow_df, ui, output>>

CellNotStarted ==
    /\ pc = "cells"
    /\ Len(tenant_row) < Horizon
    /\ LET i   == Len(tenant_row)
           soy == StartOfYear(years[i + 1])
           eoy == EndOfYear(years[i + 1])
           row == df[idx]
       IN  /\ ~FullyExpired(row.LeaseEnd, soy)
           /\ NotYetStarted(row.LeaseStart, eoy)
           /\ days_in_year' = DaysInYear(soy, eoy)
           /\ tenant_row' = Append(tenant_row, 0)
           /\ regime' = Append(regime, "not started")
    /\ UNCHANGED <<uploaded_file, valuation_date_input, escalation_percent, pc, df,
                   valuation_year, years, cashflow_matrix, idx, days_covered,
                   cashflow_df, ui, output>>

CellActive ==
    /\ pc = "cells"
    /\ Len(tenant_row) < Horizon
    /\ LET i   == Len(tenant_row)
           soy == StartOfYear(years[i + 1])
           eoy == EndOfYear(years[i + 1])
           row == df[idx]
           in_year == DaysInYear(soy, eoy)
           covered == DaysCovered(row.LeaseStart, row.LeaseEnd, soy, eoy)
       IN  /\ ~FullyExpired(row.LeaseEnd, soy)
           /\ ~NotYetStarted(row.LeaseStart, eoy)
           /\ ~row.PassingRent.text
           /\ days_in_year' = in_year
           /\ days_covered' = covered
           /\ tenant_row' =
                 Append(tenant_row, InTermRent(row, escalation_percent, i, covered, in_year))
           /\ regime' = Append(regime, "active")
    /\ UNCHANGED <<uploaded_file, valuation_date_input, escalation_percent, pc, df,
                   valuation_year, years, cashflow_matrix, idx, cashflow_df, ui, output>>

\* text * float raises TypeError in the branch that reads the rent cell
CellRaises ==
    /\ pc = "cells"
    /\ Len(tenant_row) < Horizon
    /\ LET i   == Len(tenant_row)
           soy == StartOfYear(years[i + 1])
           eoy == EndOfYear(years[i + 1])
           row == df[idx]
       IN  /\ days_in_year' = DaysInYear(soy, eoy)
           /\ \/ /\ FullyExpired(row.LeaseEnd, soy)
                 /\ row.MarketRent.text
                 /\ UNCHANGED days_covered
              \/ /\ ~FullyExpired(row.LeaseEnd, soy)
                 /\ ~NotYetStarted(row.LeaseStart, eoy)
                 /\ row.PassingRent.text
                 /\ days_covered' = DaysCovered(row.LeaseStart, row.LeaseEnd, soy, eoy)
    /\ Raise
    /\ UNCHANGED <<uploaded_file, valuation_date_input, escalation_percent, df,
                   valuation_year, years, cashflow_matrix, idx, tenant_row, regime,
                   cashflow_df, output>>

\* cashflow_matrix.append(tenant_row)
EndRow ==
    /\ pc = "cells"
    /\ Len(tenant_row) = Horizon
    /\ cashflow_matrix' = Append(cashflow_matrix, tenant_row)
    /\ pc' = "rows"
    /\ UNCHANGED <<uploaded_file, valuation_date_input, escalation_percent, df,
                   valuation_year, years, idx, tenant_row, regime, days_in_year,
                   days_covered, cashflow_df, ui, output>>

\* [str(y) for y in years]
YearLabels(ys) == [j \in 1..Len(ys) |-> ToString(ys[j])]

\* df['Tenant']: a Series indexed 0 .. n-1
TenantSeries(frame) == [label \in 0..(Len(frame) - 1) |-> frame[label + 1].Tenant]

\* mutant: the new frame is indexed 1 .. n
InsertTenantMisaligned(matrix, labels, series) ==
    [columns |-> <<"Tenant">> \o labels,
     rows    |-> [k \in 1..Len(matrix) |->
                    << IF k \in DOMAIN series THEN series[k] ELSE "NaN" >> \o matrix[k]],
     none    |-> FALSE]

\* DataFrame(matrix, columns=labels) then insert(0, 'Tenant', series): the series
\* is aligned on the index labels 0 .. n-1 of the new frame
InsertTenant(matrix, labels, series) ==
    [columns |-> <<"Tenant">> \o labels,
     rows    |-> [k \in 1..Len(matrix) |->
                    << IF (k - 1) \in DOMAIN series THEN series[k - 1] ELSE "NaN" >>
                       \o matrix[k]],
     none    |-> FALSE]

Assemble ==
    /\ pc = "rows"
    /\ idx = Len(df)
    /\ cashflow_df' = InsertTenant(cashflow_matrix, YearLabels(years), TenantSeries(df))
    /\ pc' = "show"
    /\ UNCHANGED <<uploaded_file, valuation_date_input, escalation_percent, df,
                   valuation_year, years, cashflow_matrix, idx, tenant_row, regime,
                   days_in_year, days_covered, ui, output>>

\* st.dataframe(cashflow_df)
Show ==
    /\ pc = "show"
    /\ ui' = Append(ui, "grid")
    /\ pc' = "export"
    /\ UNCHANGED <<uploaded_file, valuation_date_input, escalation_percent, df,
                   valuation_year, years, cashflow_matrix, idx, tenant_row, regime,
                   days_in_year, days_covered, cashflow_df, output>>

\* cashflow_df.to_excel(...); st.download_button(...)
Export ==
    /\ pc = "export"
    /\ output' = cashflow_df
    /\ ui' = Append(ui, "download")
    /\ pc' = "done"
    /\ UNCHANGED <<uploaded_file, valuation_date_input, escalation_percent, df,
                   valuation_year, years, cashflow_matrix, idx, tenant_row, regime,
                   days_in_year, days_covered, cashflow_df>>

Next ==
    \/ ReadExcel
    \/ MissingColumns
    \/ ConvertDates
    \/ ConvertDatesRaises
    \/ GenerateYears
    \/ BeginRow
    \/ CellExpired
    \/ CellNotStarted
    \/ CellActive
    \/ CellRaises
    \/ EndRow
    \/ Assemble
    \/ Show
    \/ Export

Spec == Init /\ [][Next]_vars

\* the projection of one well-typed lease record
NextProjector ==
    \/ ReadExcel
    \/ ConvertDates
    \/ GenerateYears
    \/ BeginRow
    \/ CellExpired
    \/ CellNotStarted
    \/ CellActive
    \/ EndRow
    \/ Assemble
    \/ Show
    \/ Export

SpecProjector == InitProjector /\ [][NextProjector]_vars

----------------------------------------------------------------------------
(* Vocabulary of the properties: calendar years and computed cells, stated *)
(* from the inputs and independently of the loop's own locals.             *)

ProjectionYear(j) == valuation_date_input[1] + (j - 1)

Jan1(y) == Timestamp(y, 1, 1, 0)
Dec31(y) == Timestamp(y, 12, 31, 0)

\* <<k, j>>: the cell of input row k and horizon position j has been computed
Computed ==
    { c \in (1..Len(df)) \X (1..Horizon) :
        \/ c[1] <= Len(cashflow_matrix)
        \/ pc = "cells" /\ c[1] = idx /\ c[2] <= Len(tenant_row) }

CellAt(k, j) ==
    IF k <= Len(cashflow_matrix) THEN cashflow_matrix[k][j] ELSE tenant_row[j]

WellFormed(row) == row.LeaseStart <= row.LeaseEnd

ExpiredBefore(row, y) == row.LeaseEnd < Jan1(y)
StartsAfter(row, y) == row.LeaseStart > Dec31(y)
Contains(row, y) == row.LeaseStart <= Jan1(y) /\ row.LeaseEnd >= Dec31(y)

\* the case (a), (b) or (c) of a year
Case(row, y) ==
    IF ExpiredBefore(row, y) THEN "expired"
    ELSE IF StartsAfter(row, y) THEN "not started"
    ELSE "active"

\* the cell computed last is the one the loop's locals describe
LastCell == pc = "cells" /\ Len(tenant_row) >= 1

----------------------------------------------------------------------------
\* C1: in every projection year whose Jan 1 is strictly after lease_end the
\* cell is market_rent * (1 + r) ^ i rounded to 2 decimals, i being the offset
\* of the year from the valuation year, whatever passing_rent and lease_start are.
C1_ReversionUsesValuationOffset ==
    \A c \in Computed :
        ExpiredBefore(df[c[1]], ProjectionYear(c[2])) =>
            CellAt(c[1], c[2]) =
                RoundedAnnual(df[c[1]].MarketRent.cents, escalation_percent, c[2] - 1)

\* a lease that reverts inside the horizon, escalated, with distinct rents
C1_Witness ==
    \E c \in Computed :
        /\ ExpiredBefore(df[c[1]], ProjectionYear(c[2]))
        /\ ~ExpiredBefore(df[c[1]], ProjectionYear(c[2] - 1))
        /\ c[2] >= 3
        /\ escalation_percent > 0
        /\ df[c[1]].MarketRent.cents > 0
        /\ df[c[1]].MarketRent.cents # df[c[1]].PassingRent.cents
        /\ CellAt(c[1], c[2]) > df[c[1]].MarketRent.cents

\* C2 as stated: in every projection year whose Dec 31 is strictly before
\* lease_start the cell is 0, whatever lease_end is.
C2_ZeroBeforeStart_AnyRecord ==
    \A c \in Computed :
        StartsAfter(df[c[1]], ProjectionYear(c[2])) => CellAt(c[1], c[2]) = 0

\* C2 amended: for a record with lease_start <= lease_end, in every projection
\* year whose Dec 31 is strictly before lease_start the cell is 0.
C2_ZeroBeforeStart ==
    \A c \in Computed :
        WellFormed(df[c[1]]) /\ StartsAfter(df[c[1]], ProjectionYear(c[2])) =>
            CellAt(c[1], c[2]) = 0

C2_Witness ==
    \E c \in Computed :
        /\ WellFormed(df[c[1]])
        /\ StartsAfter(df[c[1]], ProjectionYear(c[2]))
        /\ df[c[1]].PassingRent.cents > 0
        /\ df[c[1]].MarketRent.cents > 0
        /\ escalation_percent > 0
        /\ CellAt(c[1], c[2]) = 0

\* C3: in every projection year the lease fully contains, leap or not, the
\* cell is passing_rent * (1 + r) ^ i rounded to 2 decimals, and days_covered
\* equals days_in_year (366 in a leap year, 365 otherwise).
C3_FullYearIsUnprorated ==
    /\ \A c \in Computed :
          Contains(df[c[1]], ProjectionYear(c[2])) =>
              CellAt(c[1], c[2]) =
                  RoundedAnnual(df[c[1]].PassingRent.cents, escalation_percent, c[2] - 1)
    /\ LastCell /\ Contains(df[idx], ProjectionYear(Len(tenant_row))) =>
          /\ days_covered = days_in_year
          /\ days_in_year = (IF IsLeap(ProjectionYear(Len(tenant_row))) THEN 366 ELSE 365)

\* a fully contained leap year at a positive offset, escalated
C3_Witness ==
    /\ LastCell
    /\ Contains(df[idx], ProjectionYear(Len(tenant_row)))
    /\ IsLeap(ProjectionYear(Len(tenant_row)))
    /\ Len(tenant_row) >= 2
    /\ escalation_percent > 0
    /\ df[idx].PassingRent.cents > 0
    /\ days_covered = 366

\* C4 as stated: for every record and year exactly one of (a) lease_end <
\* start_of_year, (b) lease_start > end_of_year, (c) neither holds, (a) and (b)
\* never hold together, and the branch taken is the one whose condition holds.
C4_CasesExclusive_AnyRecord ==
    \A j \in 1..Len(regime) :
        LET a == ExpiredBefore(df[idx], ProjectionYear(j))
            b == StartsAfter(df[idx], ProjectionYear(j))
        IN  /\ ~(a /\ b)
            /\ regime[j] = "expired" <=> a
            /\ regime[j] = "not started" <=> b
            /\ regime[j] = "active" <=> (~a /\ ~b)

\* C4 amended: the same for every record with lease_start <= lease_end.
C4_CasesExclusive ==
    \A j \in 1..Len(regime) :
        LET a == ExpiredBefore(df[idx], ProjectionYear(j))
            b == StartsAfter(df[idx], ProjectionYear(j))
        IN  WellFormed(df[idx]) =>
                /\ ~(a /\ b)
                /\ regime[j] = "expired" <=> a
                /\ regime[j] = "not started" <=> b
                /\ regime[j] = "active" <=> (~a /\ ~b)

\* a well-formed lease whose ten years show all three cases
C4_Witness ==
    /\ Len(regime) = Horizon
    /\ WellFormed(df[idx])
    /\ {regime[j] : j \in 1..Horizon} = {"expired", "not started", "active"}

\* days_covered and days_in_year of a year of a row
Covered(row, y) == DaysCovered(row.LeaseStart, row.LeaseEnd, Jan1(y), Dec31(y))
InYear(y) == IF IsLeap(y) THEN 366 ELSE 365

NonNegativeRents(row) == row.PassingRent.cents >= 0 /\ row.MarketRent.cents >= 0

\* the record satisfies the data model
DataModel(row) == WellFormed(row) /\ NonNegativeRents(row)

\* two consecutive computed cells <<k, j>>, <<k, j + 1>>
ConsecutivePairs == { c \in Computed : <<c[1], c[2] + 1>> \in Computed }

\* C5 as stated: for r >= 0, two consecutive projection years in the same case
\* (both expired, both not yet started, both active) have cell(i+1) >= cell(i).
\* Stated here for the records of the data model only (non-negative rents,
\* lease_start <= lease_end), which every reading of the claim covers.
C5_Monotone_SameCase ==
    \A c \in ConsecutivePairs :
        /\ DataModel(df[c[1]])
        /\ Case(df[c[1]], ProjectionYear(c[2])) = Case(df[c[1]], ProjectionYear(c[2] + 1))
        => CellAt(c[1], c[2] + 1) >= CellAt(c[1], c[2])

\* C5 amended: for a record with non-negative rents and r >= 0, two consecutive
\* projection years in the same case have cell(i+1) >= cell(i), provided that,
\* when both are active, the share days_covered / days_in_year of the later
\* year is not smaller than that of the earlier year.
C5_Monotone ==
    \A c \in ConsecutivePairs :
        LET row == df[c[1]]
            y0  == ProjectionYear(c[2])
            y1  == ProjectionYear(c[2] + 1)
        IN  /\ NonNegativeRents(row)
            /\ Case(row, y0) = Case(row, y1)
            /\ Case(row, y0) = "active" =>
                  Covered(row, y1) * InYear(y0) >= Covered(row, y0) * InYear(y1)
            => CellAt(c[1], c[2] + 1) >= CellAt(c[1], c[2])

\* two active years, the later covered at least as much, and the cell grows
C5_Witness ==
    \E c \in ConsecutivePairs :
        LET row == df[c[1]]
            y0  == ProjectionYear(c[2])
            y1  == ProjectionYear(c[2] + 1)
        IN  /\ NonNegativeRents(row)
            /\ Case(row, y0) = "active" /\ Case(row, y1) = "active"
            /\ Covered(row, y1) * InYear(y0) >= Covered(row, y0) * InYear(y1)
            /\ escalation_percent > 0
            /\ CellAt(c[1], c[2] + 1) > CellAt(c[1], c[2])
            /\ CellAt(c[1], c[2]) > 0

\* C9 as stated: for a record satisfying the data model and r >= 0 every cell is
\* non-negative, in the active case 1 <= days_covered <= days_in_year, and the
\* cell never exceeds the escalated annual passing rent passing_rent * (1+r)^i.
C9_NonNegative_BelowExactAnnual ==
    /\ \A c \in Computed :
          DataModel(df[c[1]]) =>
              /\ CellAt(c[1], c[2]) >= 0
              /\ Case(df[c[1]], ProjectionYear(c[2])) = "active" =>
                    CellAt(c[1], c[2]) * Pow(GrowthDen(escalation_percent), c[2] - 1)
                        <= df[c[1]].PassingRent.cents
                              * Pow(GrowthNum(escalation_percent), c[2] - 1)
    /\ LastCell /\ DataModel(df[idx])
          /\ Case(df[idx], ProjectionYear(Len(tenant_row))) = "active" =>
              1 <= days_covered /\ days_covered <= days_in_year

\* C9 amended: the same, the cell never exceeding the escalated annual passing
\* rent rounded to 2 decimals.
C9_NonNegative ==
    /\ \A c \in Computed :
          DataModel(df[c[1]]) =>
              /\ CellAt(c[1], c[2]) >= 0
              /\ Case(df[c[1]], ProjectionYear(c[2])) = "active" =>
                    CellAt(c[1], c[2]) <=
                        RoundedAnnual(df[c[1]].PassingRent.cents, escalation_percent, c[2] - 1)
    /\ LastCell /\ DataModel(df[idx])
          /\ Case(df[idx], ProjectionYear(Len(tenant_row))) = "active" =>
              1 <= days_covered /\ days_covered <= days_in_year

\* a lease of a single day, prorated to a positive amount below the annual rent
C9_Witness ==
    /\ LastCell
    /\ DataModel(df[idx])
    /\ Case(df[idx], ProjectionYear(Len(tenant_row))) = "active"
    /\ df[idx].LeaseStart = df[idx].LeaseEnd
    /\ days_covered = 1
    /\ tenant_row[Len(tenant_row)] > 0
    /\ tenant_row[Len(tenant_row)] < df[idx].PassingRent.cents

Rank(r) == IF r = "not started" THEN 1 ELSE IF r = "active" THEN 2 ELSE 3

\* C10: for a record with lease_start <= lease_end the branches taken along
\* the horizon are a run of not-started years, then a run of active years,
\* then a run of expired years: no year follows a year of a later kind.
C10_RegimesInOrder ==
    \A j \in 1..Len(regime) : \A l \in 1..Len(regime) :
        WellFormed(df[idx]) /\ j < l => Rank(regime[j]) <= Rank(regime[l])

\* a partial first year, then full years, then reversion
C10_Witness ==
    /\ Len(regime) = Horizon
    /\ WellFormed(df[idx])
    /\ regime[1] = "active"
    /\ regime[Horizon] = "expired"
    /\ tenant_row[1] < tenant_row[2]
    /\ df[idx].MarketRent.cents > df[idx].PassingRent.cents
    /\ df[idx].PassingRent.cents > 0

----------------------------------------------------------------------------
(* Whole-run properties, stated from the uploaded table *)

Input == uploaded_file.rows

ColumnsPresent == required_cols \subseteq uploaded_file.columns

ErrorShown == \E n \in 1..Len(ui) : ui[n] = "error"

\* a grid has been assembled, shown or exported
GridProduced ==
    \/ ~cashflow_df.none
    \/ ~output.none
    \/ \E n \in 1..Len(ui) : ui[n] \in {"grid", "download"}

BadDate(raw) == ~Parseable(raw.LeaseStart) \/ ~Parseable(raw.LeaseEnd)

Converted(raw) ==
    [raw EXCEPT !.LeaseStart = to_datetime(raw.LeaseStart),
                !.LeaseEnd = to_datetime(raw.LeaseEnd)]

\* some date or rent cell of some row cannot be interpreted
SomeCellUninterpretable ==
    \E k \in 1..Len(Input) :
        BadDate(Input[k]) \/ Input[k].PassingRent.text \/ Input[k].MarketRent.text

\* a text rent cell that the computation of some projection year reads
ReadsTextRent(raw) ==
    \E j \in 1..Horizon :
        \/ Case(Converted(raw), ProjectionYear(j)) = "expired" /\ raw.MarketRent.text
        \/ Case(Converted(raw), ProjectionYear(j)) = "active" /\ raw.PassingRent.text

SomeCellStopsTheRun ==
    \E k \in 1..Len(Input) : BadDate(Input[k]) \/ ReadsTextRent(Input[k])

\* no cell is computed and nothing is produced when a column is missing
NothingWithoutColumns ==
    ~ColumnsPresent =>
        cashflow_matrix = <<>> /\ tenant_row = <<>> /\ ~GridProduced

\* a grid exists only with every cell of every input row in it
GridIsComplete ==
    GridProduced =>
        /\ ~ErrorShown
        /\ Len(cashflow_matrix) = Len(Input)
        /\ \A k \in 1..Len(cashflow_matrix) : Len(cashflow_matrix[k]) = Horizon
        /\ Len(cashflow_df.rows) = Len(Input)
        /\ \A k \in 1..Len(cashflow_df.rows) : Len(cashflow_df.rows[k]) = Horizon + 1
        /\ output.none \/ output = cashflow_df

\* C6 as stated: with a required column missing no cell is computed and no
\* grid produced; with any date or rent cell of any row uninterpretable the
\* run ends in an error; a grid is produced only complete.
C6_AllOrNothing_AnyBadCell ==
    /\ NothingWithoutColumns
    /\ pc = "done" /\ ColumnsPresent /\ SomeCellUninterpretable =>
          ErrorShown /\ ~GridProduced
    /\ GridIsComplete

\* C6 amended: with a required column missing no cell is computed and no grid
\* produced; with an unparseable date cell in any row, or a text rent cell that
\* some projection year of its row reads (market rent in a fully expired year,
\* passing rent in an active year), the run ends in an error; a grid is
\* produced only complete.
C6_AllOrNothing ==
    /\ NothingWithoutColumns
    /\ pc = "done" /\ ColumnsPresent /\ SomeCellStopsTheRun =>
          ErrorShown /\ ~GridProduced
    /\ GridIsComplete

\* the second row stops the run after the first row was computed in full
C6_Witness ==
    /\ pc = "done"
    /\ ErrorShown
    /\ Len(cashflow_matrix) >= 1
    /\ ~GridProduced

\* C7: the grid has one row per input row, in input order, row k carrying the
\* Tenant value of input row k in its first column, named Tenant, followed by
\* the cells of row k.
C7_TenantsInInputOrder ==
    ~cashflow_df.none =>
        /\ Len(cashflow_df.rows) = Len(Input)
        /\ cashflow_df.columns[1] = "Tenant"
        /\ \A k \in 1..Len(cashflow_df.rows) :
              /\ cashflow_df.rows[k][1] = Input[k].Tenant
              /\ SubSeq(cashflow_df.rows[k], 2, Horizon + 1) = cashflow_matrix[k]

\* two rows of the same tenant with different cells
C7_Witness ==
    /\ ~output.none
    /\ Len(output.rows) = 2
    /\ output.rows[1][1] = output.rows[2][1]
    /\ output.rows[1] # output.rows[2]

\* C8: the horizon is V, V+1, ..., V+9 for V the year of the valuation date,
\* whatever its month and day; the year columns of the grid carry these years
\* in that order, and the cell at position i is computed for year V+i.
C8_HorizonFromValuationYear ==
    /\ pc \in {"rows", "cells", "show", "export"} => years # <<>>
    /\ years # <<>> =>
          /\ Len(years) = Horizon
          /\ \A j \in 1..Horizon : years[j] = valuation_date_input[1] + (j - 1)
          /\ \A j \in 1..(Horizon - 1) : years[j] < years[j + 1]
    /\ ~cashflow_df.none =>
          /\ Len(cashflow_df.columns) = Horizon + 1
          /\ \A j \in 1..Horizon :
                cashflow_df.columns[j + 1] = ToString(valuation_date_input[1] + (j - 1))
    /\ LastCell => days_in_year = InYear(ProjectionYear(Len(tenant_row)))

\* a grid for a valuation date on the last day of its year
C8_Witness ==
    /\ ~cashflow_df.none
    /\ valuation_date_input[2] = 12
    /\ valuation_date_input[3] = 31
    /\ Len(cashflow_df.rows) >= 1
    /\ cashflow_df.columns[2] = "2024"
    /\ cashflow_df.columns[Horizon + 1] = "2033"

====
